---------------------------- MODULE Spec2Model ----------------------------
(***************************************************************************)
(* Model of src/channel_bot.py: the job collection loop (main), the        *)
(* deduplication store (is_duplicate_job), the classifier                  *)
(* (is_suitable_job, classify_job_level), the retry wrapper                *)
(* (safe_fetch_with_retry) and the publisher front end (JobBot.post_job).  *)
(*                                                                         *)
(* Conventions                                                             *)
(*  - Text is modelled by TLA+ strings; Python's `in`, lower() and strip() *)
(*    are computed character by character.  The Cyrillic keywords of the   *)
(*    source lists are written in Latin transliteration, since the module  *)
(*    text is ASCII; no model input contains them.                         *)
(*  - The wall clock `now` counts UTC time in units of 1/UnitsPerDay day.  *)
(*    SQLite's CURRENT_TIMESTAMP (line 182) is UTC; Python's               *)
(*    datetime.now() (line 229) is naive local time, i.e. now + tz.        *)
(*  - Sleep durations are kept in seconds in `timer` and `gap`.            *)
(*  - sha256/md5 are modelled as injective: a fingerprint is the pair of   *)
(*    the digest's name and the text that was digested.                    *)
(***************************************************************************)
EXTENDS Integers, Sequences, FiniteSets, TLC

VARIABLES
    mode,          \* which specification's driver owns the run
    \* ---- classifier driver
    c_job,         \* the job handed to the classifier
    c_level,       \* result of classify_job_level ("unset" before the call)
    c_suitable,    \* result of is_suitable_job (FALSE before the call)
    \* ---- wall clock and deduplication store
    now,           \* UTC wall clock, in units of 1/UnitsPerDay day
    tz,            \* offset of the host's local time from UTC, same units
    posted_jobs,   \* rows of table posted_jobs
    \* ---- deduplication driver
    reg_at,        \* fingerprint -> {time is_duplicate_job last registered it}
    d_called,      \* TRUE in the state right after an is_duplicate_job call
    d_job,         \* the job of that call
    d_prev,        \* reg_at of its fingerprint before the call
    d_result,      \* what the call returned
    \* ---- retry-wrapper driver
    r_fetch,       \* fetch_func: call number -> what that call does
    r_called,      \* TRUE once safe_fetch_with_retry has run
    r_out,         \* what safe_fetch_with_retry did
    \* ---- collection loop (main) and JobBot
    is_paused,       \* JobBot.is_paused
    pc,              \* the await at which main is suspended
    timer,           \* seconds of the asyncio.sleep main is in (0: not asleep)
    src,             \* index in fetch_functions of the fetch in the executor
    all_jobs,        \* main's all_jobs
    classified_jobs, \* main's classified_jobs
    idx,             \* position in the publishing for loop (0: outside it)
    posted_count,    \* main's posted_count
    floods,          \* RetryAfter answers received for the job being posted
    \* ---- observations of the current loop iteration
    invoked,         \* source names handed to the executor, in order
    fetched,         \* per finished fetch: what it returned, whether it failed
    cycle_log,       \* per is_duplicate_job call: what happened to the job
    gap,             \* pacing seconds slept since the last send_message hand-off
    store_at_top,    \* posted_jobs at the top of the iteration
    top_paused,      \* is_paused as the top of the iteration read it
    \* ---- observation of the whole run
    handoffs,        \* fingerprint -> times at which post_job was called for it
    \* ---- shutdown task
    sd,            \* the await at which shutdown() is suspended ("none": no signal)
    \* ---- driver of the single functions
    arg,           \* the argument the function is run on
    res,           \* what the function returned
    done           \* TRUE once the function has run

clf_vars == <<c_job, c_level, c_suitable>>
store_vars == <<now, tz, posted_jobs>>
dedup_vars == <<reg_at, d_called, d_job, d_prev, d_result>>
retry_vars == <<r_fetch, r_called, r_out>>
loop_vars == <<is_paused, pc, timer, src, all_jobs, classified_jobs, idx,
               posted_count, floods>>
loop_vars_but_paused == <<pc, timer, src, all_jobs, classified_jobs, idx,
                         posted_count, floods>>
obs_vars == <<invoked, fetched, cycle_log, gap, store_at_top, top_paused, handoffs>>
main_vars == <<loop_vars, obs_vars>>
fn_vars == <<arg, res, done>>
vars == <<mode, clf_vars, store_vars, dedup_vars, retry_vars, main_vars, sd, fn_vars>>

None == "None"

\* The values a driver's variables keep in the runs of another driver.
ClassifierIdle == c_job = None /\ c_level = "unset" /\ c_suitable = FALSE

StoreIdle == now = 0 /\ tz = 0 /\ posted_jobs = {}

DedupIdle ==
    /\ reg_at = <<>>
    /\ d_called = FALSE
    /\ d_job = None
    /\ d_prev = {}
    /\ d_result = FALSE

RetryIdle == r_fetch = <<>> /\ r_called = FALSE /\ r_out = None

MainIdle ==
    /\ is_paused = FALSE
    /\ pc = "off"
    /\ timer = 0
    /\ src = 0
    /\ all_jobs = <<>>
    /\ classified_jobs = <<>>
    /\ idx = 0
    /\ posted_count = 0
    /\ floods = 0
    /\ invoked = <<>>
    /\ fetched = <<>>
    /\ cycle_log = <<>>
    /\ gap = 0
    /\ store_at_top = {}
    /\ top_paused = FALSE
    /\ handoffs = <<>>
    /\ sd = "none"

FnIdle == arg = None /\ res = None /\ done = FALSE

(***************************************************************************)
(* Python string primitives                                                *)
(***************************************************************************)
Min(a, b) == IF a <= b THEN a ELSE b
Max(a, b) == IF a >= b THEN a ELSE b

\* k in t  (substring test)
Occurs(k, t) ==
    \E i \in 1..(Len(t) - Len(k) + 1) : SubSeq(t, i, i + Len(k) - 1) = k

\* the letters lower() changes, each with its lower-case form
LowerOf ==
    "A" :> "a" @@ "B" :> "b" @@ "C" :> "c" @@ "D" :> "d" @@ "E" :> "e"
    @@ "F" :> "f" @@ "G" :> "g" @@ "H" :> "h" @@ "I" :> "i" @@ "J" :>
    "j" @@ "K" :> "k" @@ "L" :> "l" @@ "M" :> "m" @@ "N" :> "n" @@ "O"
    :> "o" @@ "P" :> "p" @@ "Q" :> "q" @@ "R" :> "r" @@ "S" :> "s" @@
    "T" :> "t" @@ "U" :> "u" @@ "V" :> "v" @@ "W" :> "w" @@ "X" :> "x"
    @@ "Y" :> "y" @@ "Z" :> "z"

LowerChar(c) == IF c \in DOMAIN LowerOf THEN LowerOf[c] ELSE c

RECURSIVE LowerFrom(_, _)
LowerFrom(s, i) ==
    IF i > Len(s) THEN "" ELSE LowerChar(SubSeq(s, i, i)) \o LowerFrom(s, i + 1)

\* str.lower()
Lower(s) == LowerFrom(s, 1)

IsSpace(c) == c = " "

RECURSIVE LStripFrom(_, _)
LStripFrom(s, i) ==
    IF i > Len(s) THEN ""
    ELSE IF IsSpace(SubSeq(s, i, i)) THEN LStripFrom(s, i + 1)
    ELSE SubSeq(s, i, Len(s))

RECURSIVE RStripTo(_, _)
RStripTo(s, j) ==
    IF j < 1 THEN ""
    ELSE IF IsSpace(SubSeq(s, j, j)) THEN RStripTo(s, j - 1)
    ELSE SubSeq(s, 1, j)

\* str.strip()
Strip(s) == LET l == LStripFrom(s, 1) IN RStripTo(l, Len(l))

(***************************************************************************)
(* Keyword lists (lines 121-150)                                           *)
(***************************************************************************)
JUNIOR_SIGNALS ==
    <<"junior", "jr", "jr.", "entry level", "entry-level", "entry",
      "trainee", "graduate", "nachinayushchij", "nachalnyj",
      "0-1 year", "0-2 years", "1 year", "1+ year", "1-2 years",
      "no experience", "bez opyta", "beginner">>

MIDDLE_SIGNALS ==
    <<"middle", "mid-level", "mid level", "intermediate",
      "2-3 years", "2-4 years", "3-5 years", "2+ years", "3+ years">>

EXCLUDE_SIGNALS ==
    <<"senior", "sr.", "sr ", "lead", "principal", "staff engineer",
      "architect", "head of", "director", "manager", "vp",
      "vice president", "cto", "cfo", "chief", "c-level",
      "starshij", "vedushchij", "rukovoditel", "glavnyj">>

IT_ROLES ==
    <<"developer", "engineer", "programmer", "designer", "qa", "tester",
      "analyst", "frontend", "backend", "full-stack", "fullstack",
      "devops", "product manager", "data scientist", "data analyst",
      "mobile", "ios", "android", "react", "vue", "angular",
      "python", "javascript", "java", "php", "ruby", "go", "rust",
      "node", "web developer", "software", "support engineer",
      "razrabotchik", "programmist", "inzhener", "testirovshchik">>

REMOTE_KEYWORDS ==
    <<"remote", "udalenno", "udalyonno", "work from home", "distancionno", "wfh">>

\* any(word in text for word in words)
AnyIn(words, text) == \E n \in 1..Len(words) : Occurs(words[n], text)

(***************************************************************************)
(* Jobs: the dictionaries the adapters build (lines 456-467)               *)
(***************************************************************************)
Job(title, description, url, company, source) ==
    [title |-> title, description |-> description, url |-> url,
     company |-> company, source |-> source]

(***************************************************************************)
(* Classifier (lines 292-306, 381-386)                                     *)
(***************************************************************************)
\* f"{title} {description}".lower()
FullText(job) == Lower(job.title \o " " \o job.description)

\* The rule order of classify_job_level with the junior test put first.
ClassifyJuniorFirst(job_data) ==
    LET full_text == FullText(job_data) IN
    IF AnyIn(JUNIOR_SIGNALS, full_text) THEN "Junior"
    ELSE IF AnyIn(EXCLUDE_SIGNALS, full_text) THEN None
    ELSE IF AnyIn(MIDDLE_SIGNALS, full_text) THEN "Middle"
    ELSE IF AnyIn(IT_ROLES, full_text) THEN "Junior"
    ELSE None

\* The rules of classify_job_level without the closing IT-role rule.
ClassifyLabelledOnly(job_data) ==
    LET full_text == FullText(job_data) IN
    IF AnyIn(EXCLUDE_SIGNALS, full_text) THEN None
    ELSE IF AnyIn(JUNIOR_SIGNALS, full_text) THEN "Junior"
    ELSE IF AnyIn(MIDDLE_SIGNALS, full_text) THEN "Middle"
    ELSE None

\* The rules of classify_job_level with the middle test before the junior test.
ClassifyMiddleFirst(job_data) ==
    LET full_text == FullText(job_data) IN
    IF AnyIn(EXCLUDE_SIGNALS, full_text) THEN None
    ELSE IF AnyIn(MIDDLE_SIGNALS, full_text) THEN "Middle"
    ELSE IF AnyIn(JUNIOR_SIGNALS, full_text) THEN "Junior"
    ELSE IF AnyIn(IT_ROLES, full_text) THEN "Junior"
    ELSE None

classify_job_level(job_data) ==
    LET full_text == FullText(job_data) IN
    IF AnyIn(EXCLUDE_SIGNALS, full_text) THEN None
    ELSE IF AnyIn(JUNIOR_SIGNALS, full_text) THEN "Junior"
    ELSE IF AnyIn(MIDDLE_SIGNALS, full_text) THEN "Middle"
    ELSE IF AnyIn(IT_ROLES, full_text) THEN "Junior"
    ELSE None

is_suitable_job(job) ==
    LET text == FullText(job)
        has_remote == AnyIn(REMOTE_KEYWORDS, text)
        has_it_role == AnyIn(IT_ROLES, text)
    IN  has_remote /\ has_it_role

(***************************************************************************)
(* Fingerprint (lines 216-224)                                             *)
(***************************************************************************)
\* job.get(key, default)
Get(job, key, default) == IF key \in DOMAIN job THEN job[key] ELSE default

\* The fallback derivation applied to every job, the URL ignored.
HashTitleCompanyOnly(job) ==
    <<"md5", Lower(Get(job, "title", "")) \o "_" \o Lower(Get(job, "company", ""))>>

generate_job_hash(job) ==
    LET url == Strip(Get(job, "url", "")) IN
    IF url # ""
    THEN <<"sha256", url>>
    ELSE <<"md5", Lower(Get(job, "title", "")) \o "_" \o Lower(Get(job, "company", ""))>>

(***************************************************************************)
(* Deduplication store (lines 171-186, 226-253)                            *)
(***************************************************************************)
UnitsPerDay == 4
RETENTION_DAYS == 7
Retention == RETENTION_DAYS * UnitsPerDay

\* Offsets of local time from UTC that hosts are configured with, in clock
\* units: UTC-12h, UTC, UTC+12h when UnitsPerDay = 4.
TzOffsets == {-2, 0, 2}

\* datetime.now() - timedelta(days=7): naive local time (line 229)
CleanupThreshold(utc, offset) == (utc + offset) - Retention

\* DELETE FROM posted_jobs WHERE posted_at < ?  (line 230).  posted_at holds
\* CURRENT_TIMESTAMP, i.e. UTC; both sides are ISO texts of one shape, so
\* the text comparison is the comparison of the instants.
Sweep(rows, utc, offset) ==
    { r \in rows : ~(r.posted_at < CleanupThreshold(utc, offset)) }

\* A SELECT that finds no row.
ExistsNever(rows, job_hash) == FALSE

\* SELECT 1 FROM posted_jobs WHERE hash = ?  (line 235)
Exists(rows, job_hash) == \E r \in rows : r.hash = job_hash

\* The row of the INSERT of lines 241-251; posted_at defaults to
\* CURRENT_TIMESTAMP (line 182).
NewRow(job, utc) ==
    [hash |-> generate_job_hash(job),
     title |-> Get(job, "title", ""),
     company |-> Get(job, "company", ""),
     level |-> Get(job, "level", "Junior"),
     url |-> Get(job, "url", ""),
     source |-> Get(job, "source", ""),
     posted_at |-> utc]

\* is_duplicate_job: the value returned and the table it leaves.
is_duplicate_job(job, rows, utc, offset) ==
    LET swept == Sweep(rows, utc, offset) IN
    IF Exists(swept, generate_job_hash(job))
    THEN [dup |-> TRUE, rows |-> swept]
    ELSE [dup |-> FALSE, rows |-> swept \cup {NewRow(job, utc)}]

(***************************************************************************)
(* Deduplication driver: calls of is_duplicate_job on a store that starts  *)
(* empty, while the wall clock advances.                                   *)
(***************************************************************************)
DedupJobs ==
    { Job("Junior Dev", "remote", "https://jobs.example/1", "Acme", "Remotive"),
      Job("Junior Dev", "remote, reposted", " https://jobs.example/1 ", "Acme", "RemoteOK"),
      Job("QA Engineer", "wfh", "", "Initech", "Jobicy") }

DedupHashes == { generate_job_hash(j) : j \in DedupJobs }

\* how far the driver lets the clock run: past the retention window on every host
DedupHorizon == Retention + 4

InitDedup ==
    /\ mode = "dedup"
    /\ now = 0
    /\ tz \in TzOffsets
    /\ posted_jobs = {}
    /\ reg_at = [h \in DedupHashes |-> {}]
    /\ d_called = FALSE
    /\ d_job = None
    /\ d_prev = {}
    /\ d_result = FALSE
    /\ ClassifierIdle
    /\ RetryIdle
    /\ MainIdle
    /\ FnIdle

DedupCall(job) ==
    /\ mode = "dedup"
    /\ LET r == is_duplicate_job(job, posted_jobs, now, tz)
           h == generate_job_hash(job)
       IN  /\ posted_jobs' = r.rows
           /\ d_result' = r.dup
           /\ d_prev' = reg_at[h]
           /\ reg_at' = IF r.dup THEN reg_at ELSE [reg_at EXCEPT ![h] = {now}]
    /\ d_called' = TRUE
    /\ d_job' = job
    /\ UNCHANGED <<mode, now, tz, clf_vars, retry_vars, main_vars, sd, fn_vars>>

DedupTick ==
    /\ mode = "dedup"
    /\ now < DedupHorizon
    /\ now' = now + 1
    /\ d_called' = FALSE
    /\ d_job' = None
    /\ d_prev' = {}
    /\ d_result' = FALSE
    /\ UNCHANGED <<mode, tz, posted_jobs, reg_at, clf_vars, retry_vars, main_vars, sd, fn_vars>>

NextDedup ==
    \/ \E job \in DedupJobs : DedupCall(job)
    \/ DedupTick

SpecDedup == InitDedup /\ [][NextDedup]_vars

(***************************************************************************)
(* C1: on a store that starts empty, the first is_duplicate_job call for a *)
(* job returns false; a call less than 7 days after the job's last         *)
(* registration returns true; a call more than 7 days after it returns     *)
(* false again.                                                            *)
(***************************************************************************)
C1_SevenDayWindow ==
    d_called =>
        /\ (d_prev = {}) => (d_result = FALSE)
        /\ \A t \in d_prev :
              /\ (now - t < Retention) => (d_result = TRUE)
              /\ (now - t > Retention) => (d_result = FALSE)

(***************************************************************************)
(* C22: a call of is_duplicate_job that finds the fingerprint returns true *)
(* and leaves the matching row and every other row not older than 7 days   *)
(* as they were; a call that does not find it adds exactly one row, with   *)
(* the job's fingerprint and the time of the call, and returns false.      *)
(***************************************************************************)
C22_DedupFrame ==
    [][d_called' =>
         LET h == generate_job_hash(d_job') IN
         IF d_result'
         THEN /\ posted_jobs' \subseteq posted_jobs
              /\ \A r \in posted_jobs :
                     (r.hash = h \/ now - r.posted_at <= Retention) => r \in posted_jobs'
         ELSE \E r \in posted_jobs' :
                  /\ r.hash = h
                  /\ r.posted_at = now
                  /\ posted_jobs' \ posted_jobs = {r}]_vars

(***************************************************************************)
(* C23: every call of is_duplicate_job deletes the rows registered more    *)
(* than 7 days before the call, so right after a call the table holds no   *)
(* row older than 7 days; rows leave the table in no other step.           *)
(***************************************************************************)
C23_SweptAtEveryCall ==
    [][/\ d_called' => \A r \in posted_jobs' : now' - r.posted_at <= Retention
       /\ ~(posted_jobs \subseteq posted_jobs') => d_called']_vars

(***************************************************************************)
(* C24: the table holds at most one row per fingerprint.                   *)
(***************************************************************************)
C24_OneRowPerFingerprint ==
    \A r1 \in posted_jobs, r2 \in posted_jobs : r1.hash = r2.hash => r1 = r2

\* the second listing of a registered url is found; two fingerprints stored
C24_Witness ==
    /\ d_called
    /\ d_result
    /\ d_job.source = "RemoteOK"
    /\ Cardinality(posted_jobs) = 2
    /\ \E r \in posted_jobs : r.hash = generate_job_hash(d_job) /\ r.source = "Remotive"

(***************************************************************************)
(* Retry wrapper (lines 108-113, 270-289)                                  *)
(***************************************************************************)
between_apis == 5
random_jitter == 2
after_error == 30
between_posts == 3
max_retries == 3
DEFAULT_RETRY_AFTER == 60

DigitOf ==
    "0" :> 0 @@ "1" :> 1 @@ "2" :> 2 @@ "3" :> 3 @@ "4" :> 4 @@
    "5" :> 5 @@ "6" :> 6 @@ "7" :> 7 @@ "8" :> 8 @@ "9" :> 9

AllDigits(s) ==
    /\ Len(s) > 0
    /\ \A i \in 1..Len(s) : SubSeq(s, i, i) \in DOMAIN DigitOf

RECURSIVE DigitsValue(_, _)
DigitsValue(s, n) ==
    IF n = 0 THEN 0
    ELSE 10 * DigitsValue(s, n - 1) + DigitOf[SubSeq(s, n, n)]

\* int(text): surrounding blanks and one sign are accepted; anything else
\* than decimal digits raises ValueError.
PyInt(text) ==
    LET t == Strip(text)
        signed == Len(t) > 0 /\ SubSeq(t, 1, 1) \in {"+", "-"}
        digits == IF signed THEN SubSeq(t, 2, Len(t)) ELSE t
    IN  IF ~AllDigits(digits) THEN [ok |-> FALSE, value |-> 0]
        ELSE [ok |-> TRUE,
              value |-> IF signed /\ SubSeq(t, 1, 1) = "-"
                        THEN 0 - DigitsValue(digits, Len(digits))
                        ELSE DigitsValue(digits, Len(digits))]

\* What one call of fetch_func does.
Returns(jobs) == [kind |-> "return", jobs |-> jobs]
RaisesHTTPError(status_code, headers) ==
    [kind |-> "HTTPError", status_code |-> status_code, headers |-> headers]
RaisesOther == [kind |-> "Exception"]

\* What safe_fetch_with_retry does: the list returned or the exception that
\* leaves it, the number of fetch_func calls, the time.sleep durations.
Returned(result, calls, sleeps) ==
    [raised |-> None, result |-> result, calls |-> calls, sleeps |-> sleeps]
Raised(exc, calls, sleeps) ==
    [raised |-> exc, result |-> <<>>, calls |-> calls, sleeps |-> sleeps]

\* int(e.response.headers.get('Retry-After', 60))  (line 279)
RetryAfterWait(headers) ==
    IF "Retry-After" \in DOMAIN headers
    THEN PyInt(headers["Retry-After"])
    ELSE [ok |-> TRUE, value |-> DEFAULT_RETRY_AFTER]

\* The body of the for loop from iteration `attempt` on (attempt counts from 0).
RECURSIVE RetryLoop(_, _, _, _)
RetryLoop(fetch_func, jitter, attempt, sleeps) ==
    IF attempt >= max_retries
    THEN Returned(<<>>, attempt, sleeps)
    ELSE
      LET call == fetch_func[attempt + 1] IN
      CASE call.kind = "return" ->
             Returned(call.jobs, attempt + 1, Append(sleeps, between_apis + jitter))
        [] call.kind = "HTTPError" ->
             IF call.status_code = 429
             THEN LET wait == RetryAfterWait(call.headers) IN
                  IF ~wait.ok THEN Raised("ValueError", attempt + 1, sleeps)
                  ELSE IF wait.value < 0 THEN Raised("ValueError", attempt + 1, sleeps)
                  ELSE RetryLoop(fetch_func, jitter, attempt + 1, Append(sleeps, wait.value))
             ELSE Returned(<<>>, attempt + 1, sleeps)
        [] call.kind = "Exception" ->
             RetryLoop(fetch_func, jitter, attempt + 1,
                       IF attempt < max_retries - 1
                       THEN Append(sleeps, after_error * (attempt + 1))
                       ELSE sleeps)

\* The wrapper without the pacing sleep of a successful attempt.
SafeFetchUnpaced(fetch_func, jitter) ==
    LET out == RetryLoop(fetch_func, jitter, 0, <<>>) IN
    IF out.raised = None /\ out.calls >= 1 /\ fetch_func[out.calls].kind = "return"
    THEN [out EXCEPT !.sleeps = SubSeq(@, 1, Len(@) - 1)]
    ELSE out

safe_fetch_with_retry(fetch_func, jitter) == RetryLoop(fetch_func, jitter, 0, <<>>)

(***************************************************************************)
(* Retry-wrapper driver: fetch_func is any function whose calls return a   *)
(* list or raise; the action runs the wrapper on it.                       *)
(***************************************************************************)
SampleJob == Job("Junior Dev", "remote", "https://jobs.example/1", "Acme", "Remotive")

NoHeaders == [h \in {} |-> ""]

FetchBehaviours ==
    { Returns(<<>>), Returns(<<SampleJob>>),
      RaisesHTTPError(429, NoHeaders),
      RaisesHTTPError(429, [h \in {"Retry-After"} |-> " 7 "]),
      RaisesHTTPError(429, [h \in {"Retry-After"} |-> "Wed, 21 Oct 2015 07:28:00 GMT"]),
      RaisesHTTPError(429, [h \in {"Retry-After"} |-> "-1"]),
      RaisesHTTPError(503, NoHeaders),
      RaisesOther }

InitRetry ==
    /\ mode = "retry"
    /\ r_fetch \in [1..max_retries -> FetchBehaviours]
    /\ r_called = FALSE
    /\ r_out = None
    /\ ClassifierIdle
    /\ StoreIdle
    /\ DedupIdle
    /\ MainIdle
    /\ FnIdle

RetryCall(jitter) ==
    /\ mode = "retry"
    /\ ~r_called
    /\ r_called' = TRUE
    /\ r_out' = safe_fetch_with_retry(r_fetch, jitter)
    /\ UNCHANGED <<mode, r_fetch, clf_vars, store_vars, dedup_vars, main_vars, sd, fn_vars>>

NextRetry == \E jitter \in 0..random_jitter : RetryCall(jitter)

SpecRetry == InitRetry /\ [][NextRetry]_vars

(***************************************************************************)
(* C10: whatever the wrapped function does on each attempt,                *)
(* safe_fetch_with_retry lets no exception out and returns a list, the     *)
(* empty list when every attempt failed.                                   *)
(***************************************************************************)
AllAttemptsFail == \A n \in 1..max_retries : r_fetch[n].kind # "return"

C10_NeverRaises ==
    r_called =>
        /\ r_out.raised = None
        /\ AllAttemptsFail => r_out.result = <<>>

(***************************************************************************)
(* C27: after an attempt that failed otherwise than by a rate-limit signal *)
(* (an HTTP error with a status other than 429 included), the wrapper      *)
(* waits a backoff that grows with the attempt number and calls the        *)
(* adapter again, unless that attempt was the last one allowed.            *)
(***************************************************************************)
C27_ErrorsRetried ==
    (r_called /\ r_out.raised = None) =>
        \A n \in 1..(max_retries - 1) :
            ( /\ n <= r_out.calls
              /\ \/ r_fetch[n].kind = "Exception"
                 \/ (r_fetch[n].kind = "HTTPError" /\ r_fetch[n].status_code # 429) )
            => /\ r_out.calls >= n + 1
               /\ r_out.sleeps[n] = after_error * n

(***************************************************************************)
(* C28: the wrapper calls the adapter at most max_retries times, whatever  *)
(* mix of rate-limit and other failures it meets; the first attempt that   *)
(* succeeds is the last call, is followed by the pacing sleep              *)
(* (between_apis plus a jitter of at most random_jitter), and its list is  *)
(* returned as it is.                                                      *)
(***************************************************************************)
C28_BoundedAttempts ==
    r_called =>
        /\ r_out.calls \in 1..max_retries
        /\ \A n \in 1..r_out.calls :
              r_fetch[n].kind = "return" =>
                  /\ r_out.calls = n
                  /\ r_out.raised = None
                  /\ r_out.result = r_fetch[n].jobs
                  /\ Len(r_out.sleeps) = n
                  /\ r_out.sleeps[n] \in between_apis..(between_apis + random_jitter)

\* a rate-limit answer, then another failure, then success at the last attempt
C28_Witness ==
    /\ r_called
    /\ r_fetch[1].kind = "HTTPError"
    /\ r_fetch[1].status_code = 429
    /\ r_fetch[2].kind = "Exception"
    /\ r_fetch[3] = Returns(<<SampleJob>>)
    /\ r_out.calls = max_retries
    /\ r_out.result = <<SampleJob>>

(***************************************************************************)
(* Configuration and source list (lines 36-37, 973-983)                    *)
(***************************************************************************)
CHECK_INTERVAL == 1800
PAUSE_RECHECK == 60
COOLDOWN == 300

\* Config.MAX_POSTS_PER_CYCLE, scaled down from its default of 15
MAX_POSTS_PER_CYCLE == 2

fetch_functions ==
    <<"Remotive", "RemoteOK", "Arbeitnow", "Himalayas", "We Work Remotely",
      "Jobicy", "HeadHunter", "SuperJob", "Adzuna">>

\* how many of the nine sources of fetch_functions the model runs
NumSources == 2

\* how far the wall clock advances during one run of the loop
MaxClock == 1

\* how many RetryAfter answers the publisher gives for one job
MaxFloods == 1

Sources == SubSeq(fetch_functions, 1, NumSources)

Range(seq) == { seq[n] : n \in 1..Len(seq) }

\* seq[:n]
PySlice(seq, n) ==
    IF n >= 0 THEN SubSeq(seq, 1, Min(n, Len(seq)))
    ELSE SubSeq(seq, 1, Max(Len(seq) + n, 0))

\* The slice dropped: every classified job is iterated.
WholeList(jobs) == jobs

\* The cap counted over the jobs left once repeated fingerprints are dropped.
PublishBatchDistinct(jobs) ==
    LET RECURSIVE Keep(_)
        Keep(n) ==
            IF n = 0 THEN <<>>
            ELSE IF \E m \in 1..(n - 1) :
                       generate_job_hash(jobs[m]) = generate_job_hash(jobs[n])
                 THEN Keep(n - 1)
                 ELSE Append(Keep(n - 1), jobs[n])
    IN  PySlice(Keep(Len(jobs)), MAX_POSTS_PER_CYCLE)

\* classified_jobs[:Config.MAX_POSTS_PER_CYCLE]  (line 1019)
PublishBatch(jobs) == PySlice(jobs, MAX_POSTS_PER_CYCLE)

(***************************************************************************)
(* Source adapters (lines 446-797): one network exchange, every failure    *)
(* caught inside the adapter and turned into an empty list.                *)
(***************************************************************************)
NetOk(jobs) == [kind |-> "ok", jobs |-> jobs]
NetFailures == { [kind |-> "HTTPError429"], [kind |-> "HTTPError503"],
                 [kind |-> "Timeout"] }

\* fetch_remotive and its eight siblings
AdapterCall(net) ==
    IF net.kind = "ok" THEN Returns(net.jobs) ELSE Returns(<<>>)

\* Postings the providers carry.
JobA(source) ==
    Job("Junior Python Developer", "Remote", "https://jobs.example/1", "Acme", source)
JobB(source) ==
    Job("Middle QA Engineer", "work from home", "https://jobs.example/2", "Initech", source)
JobX(source) ==
    Job("Senior Developer", "remote", "https://jobs.example/3", "Hooli", source)
JobU(source) ==
    Job("Junior Python Developer", "on site, Berlin", "https://jobs.example/4", "Globex", source)

\* What a provider's listing holds when it answers: the first source has
\* one of two listings, every other source one.
Feed(source) ==
    IF source = fetch_functions[1]
    THEN { <<JobA(source), JobB(source)>>, <<JobX(source), JobU(source), JobA(source)>> }
    ELSE { <<JobA(source), JobB(source)>> }

NetBehaviours(source) == { NetOk(jobs) : jobs \in Feed(source) } \cup NetFailures

(***************************************************************************)
(* Filter and classify (lines 1005-1013)                                   *)
(***************************************************************************)
\* job['level'] = level
WithLevel(job, level) ==
    [f \in DOMAIN job \cup {"level"} |-> IF f = "level" THEN level ELSE job[f]]

\* The jobs the feeds hold, each with what the classifier says of it: the
\* two functions are evaluated once per job and looked up afterwards.
FeedJobs == UNION { Range(jobs) : jobs \in UNION { Feed(fetch_functions[n]) : n \in 1..Len(fetch_functions) } }

Verdict == [j \in FeedJobs |-> [suitable |-> is_suitable_job(j), level |-> classify_job_level(j)]]

\* Every fetched job kept, a job without a level labelled Junior.
ClassifiedUnfiltered(jobs) ==
    [n \in 1..Len(jobs) |->
        WithLevel(jobs[n], IF Verdict[jobs[n]].level = None THEN "Junior"
                           ELSE Verdict[jobs[n]].level)]

\* lines 1006-1013
Classified(jobs) ==
    LET kept == SelectSeq(jobs, LAMBDA j : Verdict[j].suitable /\ Verdict[j].level # None)
    IN  [n \in 1..Len(kept) |-> WithLevel(kept[n], Verdict[kept[n]].level)]

(***************************************************************************)
(* Publishing (lines 907-932, 1017-1027).  The operators below run the     *)
(* coroutine from one await to the next: `st` holds the variables they     *)
(* change.                                                                 *)
(***************************************************************************)
\* Where a storage error (sqlite3.Error) hits the is_duplicate_job calls of
\* one run of the coroutine: in its at-th call (0: in none), at the DELETE
\* or after it (at the SELECT or the INSERT, which leave the same table).
NoFault == [at |-> 0, op |-> "none"]
FaultsIn(calls) ==
    {NoFault} \cup { [at |-> k, op |-> o] : k \in 1..calls, o \in {"DELETE", "SELECT"} }

\* the storage errors that can hit what is left of the publishing loop
Faults == FaultsIn(Len(PublishBatch(classified_jobs)) - idx)

Cur(fault) ==
    [fault |-> fault, posted_jobs |-> posted_jobs, cycle_log |-> cycle_log, handoffs |-> handoffs,
     pc |-> pc, timer |-> timer, idx |-> idx, gap |-> gap, floods |-> floods,
     posted_count |-> posted_count]

\* the fingerprint has a row no older than the retention window
Known(rows, job, utc) ==
    \E r \in rows : r.hash = generate_job_hash(job) /\ utc - r.posted_at <= Retention

LogEntry(job, dup, known) ==
    [job |-> job, dup |-> dup, known |-> known, sends |-> 0, gap |-> 0,
     outcome |-> IF dup THEN "duplicate" ELSE "called"]

SetOutcome(st, outcome) ==
    [st EXCEPT !.cycle_log[Len(st.cycle_log)].outcome = outcome]

RECURSIVE PublishFrom(_, _, _)
RECURSIVE post_job(_, _, _)
RECURSIVE PostJobReturned(_, _, _, _)

\* An exception leaves the loop body and ends the task.
CycleRaisedUncaught(st) == [st EXCEPT !.pc = "crashed", !.timer = 0]

\* lines 1029-1031: the except clause of the loop body, then its sleep
CycleRaised(st) == [st EXCEPT !.pc = "cooldown", !.timer = COOLDOWN]

\* The storage error swallowed: the job is skipped and the loop goes on.
StorageFaultSwallowed(batch, i, st) ==
    PublishFrom(batch, i + 1,
        [st EXCEPT !.fault = NoFault,
                   !.cycle_log = Append(@, [LogEntry(batch[i], FALSE, FALSE)
                                               EXCEPT !.outcome = "storage_error"])])

\* db.execute / db.fetchone raise inside is_duplicate_job(batch[i]) (lines
\* 188-199 catch nothing, nor does is_duplicate_job): the exception leaves
\* the for loop of line 1019
StorageFaulted(batch, i, st) ==
    CycleRaised(
        [st EXCEPT !.fault = NoFault,
                   !.idx = i,
                   !.posted_jobs = IF st.fault.op = "DELETE" THEN @ ELSE Sweep(@, now, tz),
                   !.cycle_log = Append(@, [LogEntry(batch[i], FALSE, FALSE)
                                               EXCEPT !.outcome = "storage_error"])])

\* post_job returned without the pacing sleep.
PostJobReturnedNoPacing(batch, i, posted, st) ==
    PublishFrom(batch, i + 1,
                IF posted THEN [st EXCEPT !.posted_count = @ + 1] ELSE st)

\* A failed post ends the publishing phase.
PostJobReturnedAbortOnFailure(batch, i, posted, st) ==
    IF posted
    THEN [st EXCEPT !.posted_count = @ + 1, !.pc = "pacing",
                    !.timer = between_posts, !.idx = i]
    ELSE [st EXCEPT !.pc = "waiting", !.timer = CHECK_INTERVAL, !.idx = 0]

\* lines 1021-1023: what main does with the value post_job returned
PostJobReturned(batch, i, posted, st) ==
    IF posted
    THEN [st EXCEPT !.posted_count = @ + 1, !.pc = "pacing",
                    !.timer = between_posts, !.idx = i]
    ELSE PublishFrom(batch, i + 1, st)

\* post_job without the test of the pause flag.
PostJobIgnoringPause(batch, i, st) ==
    LET n == Len(st.cycle_log) IN
    [st EXCEPT !.pc = "sending", !.timer = 0, !.idx = i, !.gap = 0,
               !.cycle_log[n].sends = @ + 1,
               !.cycle_log[n].gap = IF st.cycle_log[n].sends = 0 THEN st.gap ELSE @,
               !.cycle_log[n].outcome = "pending"]

\* lines 909-920: post_job up to its await of send_message
post_job(batch, i, st) ==
    IF is_paused
    THEN PostJobReturned(batch, i, FALSE, SetOutcome(st, "paused"))
    ELSE LET n == Len(st.cycle_log) IN
         [st EXCEPT !.pc = "sending", !.timer = 0, !.idx = i, !.gap = 0,
                    !.cycle_log[n].sends = @ + 1,
                    !.cycle_log[n].gap = IF st.cycle_log[n].sends = 0 THEN st.gap ELSE @,
                    !.cycle_log[n].outcome = "pending"]

\* lines 1019-1027: the for loop from its i-th job on, then the wait
PublishFrom(batch, i, st) ==
    IF i > Len(batch)
    THEN [st EXCEPT !.pc = "waiting", !.timer = CHECK_INTERVAL, !.idx = 0]
    ELSE IF st.fault.at = 1 THEN StorageFaulted(batch, i, st)
    ELSE LET job == batch[i]
             r == is_duplicate_job(job, st.posted_jobs, now, tz)
             known == Known(st.posted_jobs, job, now)
             later == IF st.fault.at > 1 THEN st.fault.at - 1 ELSE 0
         IN  IF r.dup
             THEN PublishFrom(batch, i + 1,
                     [st EXCEPT !.posted_jobs = r.rows,
                                !.fault.at = later,
                                !.cycle_log = Append(@, LogEntry(job, TRUE, known))])
             ELSE post_job(batch, i,
                     [st EXCEPT !.posted_jobs = r.rows,
                                !.fault.at = later,
                                !.floods = 0,
                                !.handoffs[generate_job_hash(job)] = Append(@, now),
                                !.cycle_log = Append(@, LogEntry(job, FALSE, known))])

Apply(st) ==
    /\ posted_jobs' = st.posted_jobs
    /\ cycle_log' = st.cycle_log
    /\ handoffs' = st.handoffs
    /\ pc' = st.pc
    /\ timer' = st.timer
    /\ idx' = st.idx
    /\ gap' = st.gap
    /\ floods' = st.floods
    /\ posted_count' = st.posted_count

other_vars == <<mode, clf_vars, dedup_vars, retry_vars, sd, fn_vars>>

(***************************************************************************)
(* The collection loop (lines 985-1027)                                    *)
(***************************************************************************)
\* The loop top without the pause test.
LoopTopIgnoringPause ==
    /\ all_jobs' = <<>>
    /\ pc' = "fetching"
    /\ timer' = 0
    /\ src' = 1
    /\ invoked' = <<Sources[1]>>

\* lines 987-999: the pause test, then either the 60 s sleep or the first fetch
\* The loop top that never leaves the paused sleep once it has entered it.
LoopTopPausedForGood ==
    IF is_paused \/ pc = "pause_sleep"
    THEN /\ pc' = "pause_sleep"
         /\ timer' = PAUSE_RECHECK
         /\ src' = 0
         /\ invoked' = <<>>
         /\ all_jobs' = <<>>
    ELSE /\ all_jobs' = <<>>
         /\ pc' = "fetching"
         /\ timer' = 0
         /\ src' = 1
         /\ invoked' = <<Sources[1]>>

LoopTop ==
    IF is_paused
    THEN /\ pc' = "pause_sleep"
         /\ timer' = PAUSE_RECHECK
         /\ src' = 0
         /\ invoked' = <<>>
         /\ all_jobs' = <<>>
    ELSE /\ all_jobs' = <<>>
         /\ pc' = "fetching"
         /\ timer' = 0
         /\ src' = 1
         /\ invoked' = <<Sources[1]>>

\* main resumes at the top of `while True`: from start-up, from the 60 s
\* sleep of a paused iteration, or from the wait that ends a cycle.  The
\* locals of the iteration before are dead there (each is assigned before
\* it is read again) and are dropped.
Resume(from) ==
    /\ mode = "main"
    /\ pc = from
    /\ LoopTop
    /\ classified_jobs' = <<>>
    /\ idx' = 0
    /\ posted_count' = 0
    /\ floods' = 0
    /\ fetched' = <<>>
    /\ cycle_log' = <<>>
    /\ gap' = 0
    /\ store_at_top' = posted_jobs
    /\ top_paused' = is_paused
    /\ UNCHANGED <<is_paused, handoffs, store_vars, other_vars>>

Start == Resume("startup")
PauseSleepDone == Resume("pause_sleep")
WaitDone == Resume("waiting")
CooldownDone == Resume("cooldown")

\* A failed fetch ends the fetching phase.
AfterFetchStopOnFailure(net, jobs, fault) ==
    IF net.kind # "ok" \/ src = NumSources
    THEN LET classified == Classified(all_jobs \o jobs) IN
         /\ all_jobs' = all_jobs \o jobs
         /\ classified_jobs' = classified
         /\ Apply(PublishFrom(PublishBatch(classified), 1,
                              [Cur(fault) EXCEPT !.posted_count = 0, !.gap = 0]))
         /\ UNCHANGED <<src, invoked>>
    ELSE /\ all_jobs' = all_jobs \o jobs
         /\ src' = src + 1
         /\ invoked' = Append(invoked, Sources[src + 1])
         /\ UNCHANGED <<classified_jobs, posted_jobs, cycle_log, handoffs, pc, timer,
                        idx, gap, floods, posted_count>>

\* lines 996-1019: the fetch of source `src` returned `jobs`; the next
\* source is fetched, or the merged list is classified and published
AfterFetch(net, jobs, fault) ==
    IF src < NumSources
    THEN /\ all_jobs' = all_jobs \o jobs
         /\ src' = src + 1
         /\ invoked' = Append(invoked, Sources[src + 1])
         /\ UNCHANGED <<classified_jobs, posted_jobs, cycle_log, handoffs, pc, timer,
                        idx, gap, floods, posted_count>>
    ELSE LET classified == Classified(all_jobs \o jobs) IN
         /\ all_jobs' = all_jobs \o jobs
         /\ classified_jobs' = classified
         /\ Apply(PublishFrom(PublishBatch(classified), 1,
                              [Cur(fault) EXCEPT !.posted_count = 0, !.gap = 0]))
         /\ UNCHANGED <<src, invoked>>

\* run_in_executor(safe_fetch_with_retry, fetch_func, source_name) completes;
\* the jitter of the wrapper's sleep is any value of its range
FetchDone(source, net) ==
    /\ mode = "main"
    /\ pc = "fetching"
    /\ source = Sources[src]
    /\ LET outs == { safe_fetch_with_retry([n \in 1..max_retries |-> AdapterCall(net)], jitter) :
                       jitter \in 0..random_jitter }
       IN  \E result \in { out.result : out \in { o \in outs : o.raised = None } } :
              /\ fetched' = Append(fetched, [source |-> source, jobs |-> result,
                                             failed |-> net.kind # "ok"])
              /\ \E fault \in FaultsIn(MAX_POSTS_PER_CYCLE) : AfterFetch(net, result, fault)
    /\ UNCHANGED <<is_paused, store_at_top, top_paused, now, tz, other_vars>>

Publishing(st) ==
    /\ Apply(st)
    /\ UNCHANGED <<is_paused, src, all_jobs, classified_jobs, invoked, fetched,
                   store_at_top, top_paused, now, tz, other_vars>>

\* send_message returned: post_job returns True
SendOk ==
    /\ mode = "main"
    /\ pc = "sending"
    /\ \E fault \in Faults :
          Publishing(PostJobReturned(PublishBatch(classified_jobs), idx, TRUE,
                                     SetOutcome(Cur(fault), "ok")))

\* send_message raised RetryAfter: post_job sleeps e.retry_after seconds
RetryAfterSeconds == {30}

SendRetryAfter(retry_after) ==
    /\ mode = "main"
    /\ pc = "sending"
    /\ floods < MaxFloods
    /\ Publishing([Cur(NoFault) EXCEPT !.pc = "flood_sleep", !.timer = retry_after,
                                       !.floods = @ + 1])

\* send_message raised TimedOut or another exception: post_job returns False
SendFailed(outcome) ==
    /\ mode = "main"
    /\ pc = "sending"
    /\ \E fault \in Faults :
          Publishing(PostJobReturned(PublishBatch(classified_jobs), idx, FALSE,
                                     SetOutcome(Cur(fault), outcome)))

\* line 926: the sleep is over, post_job calls itself
FloodSleepDone ==
    /\ mode = "main"
    /\ pc = "flood_sleep"
    /\ \E fault \in Faults :
          Publishing(post_job(PublishBatch(classified_jobs), idx,
                              [Cur(fault) EXCEPT !.timer = 0]))

\* line 1023: the pacing sleep is over, the for loop goes on
PacingDone ==
    /\ mode = "main"
    /\ pc = "pacing"
    /\ \E fault \in Faults :
          Publishing(PublishFrom(PublishBatch(classified_jobs), idx + 1,
                                 [Cur(fault) EXCEPT !.gap = @ + timer, !.timer = 0]))

(***************************************************************************)
(* Admin commands (lines 808-905).  A handler runs while main is           *)
(* suspended at an await; the replies go to the chat and are not state.    *)
(***************************************************************************)
ADMIN_USER_ID == "admin"
Users == {"admin", "stranger"}

check_admin(user) == ADMIN_USER_ID = None \/ user = ADMIN_USER_ID

\* handlers are registered before the loop (lines 953-957) and run until
\* application.stop() has returned (line 1038)
HandlersRun == mode = "main" /\ pc # "startup" /\ sd \in {"none", "stop"}

\* lines 820-829: a fixed reply, for any user
cmd_start(user) ==
    /\ HandlersRun
    /\ UNCHANGED vars

\* lines 831-847: for the admin, SELECT COUNT(*) FROM posted_jobs and
\* is_paused are read into the reply
cmd_status(user) ==
    /\ HandlersRun
    /\ LET total_posted == IF check_admin(user) THEN Cardinality(posted_jobs) ELSE 0
       IN  total_posted >= 0
    /\ UNCHANGED vars

\* /last with the table trimmed to the rows it lists.
cmd_last_trimming(user, limit) ==
    /\ HandlersRun
    /\ posted_jobs' =
          IF check_admin(user)
          THEN { r \in posted_jobs :
                   Cardinality({ q \in posted_jobs : q.posted_at > r.posted_at }) < limit }
          ELSE posted_jobs
    /\ UNCHANGED <<now, tz, main_vars, other_vars>>

\* lines 849-887: for the admin, SELECT ... ORDER BY posted_at DESC LIMIT ?
\* is read into the reply (rows of equal posted_at are listed together here)
cmd_last(user, limit) ==
    /\ HandlersRun
    /\ LET results == IF check_admin(user)
                      THEN { r \in posted_jobs :
                               Cardinality({ q \in posted_jobs : q.posted_at > r.posted_at })
                                 < limit }
                      ELSE {}
       IN  results \subseteq posted_jobs
    /\ UNCHANGED vars

cmd_pause(user) ==
    /\ HandlersRun
    /\ is_paused' = IF check_admin(user) THEN TRUE ELSE is_paused
    /\ UNCHANGED <<loop_vars_but_paused, obs_vars, store_vars, other_vars>>

cmd_resume(user) ==
    /\ HandlersRun
    /\ is_paused' = IF check_admin(user) THEN FALSE ELSE is_paused
    /\ UNCHANGED <<loop_vars_but_paused, obs_vars, store_vars, other_vars>>

\* the wall clock advances while main is suspended
Tick ==
    /\ mode = "main"
    /\ now < MaxClock
    /\ now' = now + 1
    /\ UNCHANGED <<tz, posted_jobs, main_vars, other_vars>>

(***************************************************************************)
(* The run of the bot.  The table may hold rows of earlier runs (line 175: *)
(* CREATE TABLE IF NOT EXISTS); each such row was written when its job was *)
(* handed to post_job.                                                     *)
(***************************************************************************)
PriorAges == (Retention - 1)..(Retention + 1)

PriorJobs == { WithLevel(JobA(Sources[1]), "Junior") }

PriorStores ==
    { {} } \cup { { NewRow(j, 0 - a) } : j \in PriorJobs, a \in PriorAges }

MainHashes == { generate_job_hash(j) : j \in FeedJobs }

Init ==
    /\ mode = "main"
    /\ now = 0
    /\ tz \in TzOffsets
    /\ posted_jobs \in PriorStores
    /\ handoffs = [h \in MainHashes |->
                     IF \E r \in posted_jobs : r.hash = h
                     THEN <<(CHOOSE r \in posted_jobs : r.hash = h).posted_at>>
                     ELSE <<>>]
    /\ is_paused = FALSE
    /\ pc = "startup"
    /\ timer = 0
    /\ src = 0
    /\ all_jobs = <<>>
    /\ classified_jobs = <<>>
    /\ idx = 0
    /\ posted_count = 0
    /\ floods = 0
    /\ invoked = <<>>
    /\ fetched = <<>>
    /\ cycle_log = <<>>
    /\ gap = 0
    /\ store_at_top = posted_jobs
    /\ top_paused = FALSE
    /\ ClassifierIdle
    /\ DedupIdle
    /\ RetryIdle
    /\ sd = "none"
    /\ FnIdle

Next ==
    \/ Start
    \/ PauseSleepDone
    \/ WaitDone
    \/ CooldownDone
    \/ \E source \in Range(Sources) :
          \E net \in NetBehaviours(source) : FetchDone(source, net)
    \/ SendOk
    \/ \E retry_after \in RetryAfterSeconds : SendRetryAfter(retry_after)
    \/ \E outcome \in {"timeout", "error"} : SendFailed(outcome)
    \/ FloodSleepDone
    \/ PacingDone
    \/ \E user \in Users : cmd_start(user)
    \/ \E user \in Users : cmd_status(user)
    \/ \E user \in Users : cmd_last(user, 1)
    \/ \E user \in Users : cmd_pause(user)
    \/ \E user \in Users : cmd_resume(user)
    \/ Tick

Spec == Init /\ [][Next]_vars

\* asyncio.sleep(60) of a paused iteration (line 989) and
\* asyncio.sleep(CHECK_INTERVAL) (line 1027) end after their delay, and the
\* event loop then resumes main.
SpecLive == Spec /\ WF_vars(PauseSleepDone) /\ WF_vars(WaitDone)

(***************************************************************************)
(* Observations the claims about the loop are stated on                    *)
(***************************************************************************)
\* positions of cycle_log whose job reached send_message
Sent == { n \in 1..Len(cycle_log) : cycle_log[n].sends >= 1 }

\* positions of cycle_log whose job was registered and passed to post_job
Handed ==
    { n \in 1..Len(cycle_log) : ~cycle_log[n].dup /\ cycle_log[n].outcome # "storage_error" }

\* the hand-off to send_message before the one at position n (0: none)
PrevSent(n) ==
    IF \E m \in Sent : m < n
    THEN CHOOSE m \in Sent : m < n /\ \A k \in Sent : k < n => k <= m
    ELSE 0

RECURSIVE Merge(_, _)
Merge(log, n) == IF n = 0 THEN <<>> ELSE Merge(log, n - 1) \o log[n].jobs

InCycle == pc \in {"fetching", "sending", "flood_sleep", "pacing", "waiting", "cooldown"}
PastFetching == pc \in {"sending", "flood_sleep", "pacing", "waiting", "cooldown"}

(***************************************************************************)
(* C2: the same fingerprint is handed to post_job at most once within any  *)
(* 7-day window: two hand-offs of one fingerprint lie at least the         *)
(* retention window apart.                                                 *)
(***************************************************************************)
C2_OncePerWindow ==
    \A h \in DOMAIN handoffs :
        \A m, n \in 1..Len(handoffs[h]) :
            m < n => handoffs[h][n] - handoffs[h][m] >= Retention

(***************************************************************************)
(* C3: every job for which is_duplicate_job inserted a row has had         *)
(* send_message invoked for it, also when the pause flag was set during    *)
(* the cycle.                                                              *)
(***************************************************************************)
C3_RegisteredIsSent ==
    \A n \in Handed : cycle_log[n].sends >= 1

(***************************************************************************)
(* C5 as claimed: two successive hand-offs to send_message within one      *)
(* publishing phase are separated by the pacing delay, whatever the        *)
(* outcome of the earlier one.                                             *)
(***************************************************************************)
C5_PacedWhateverOutcome ==
    \A n \in Sent : PrevSent(n) # 0 => cycle_log[n].gap >= between_posts

(***************************************************************************)
(* C5 as amended: two successive hand-offs to send_message within one      *)
(* publishing phase are separated by the pacing delay when the earlier     *)
(* one succeeded (post_job returned True).                                 *)
(***************************************************************************)
C5_PacedAfterSuccess ==
    \A n \in Sent :
        (PrevSent(n) # 0 /\ cycle_log[PrevSent(n)].outcome = "ok")
            => cycle_log[n].gap >= between_posts

C5_Witness ==
    \E n \in Sent :
        /\ PrevSent(n) # 0
        /\ cycle_log[PrevSent(n)].outcome = "ok"
        /\ cycle_log[n].gap = between_posts

(***************************************************************************)
(* C6: in every cycle at most MAX_POSTS_PER_CYCLE classified jobs are      *)
(* iterated: at most that many deduplication checks are made and at most   *)
(* that many jobs are handed to the publisher.                             *)
(***************************************************************************)
C6_CapPerCycle ==
    /\ Len(cycle_log) <= MAX_POSTS_PER_CYCLE
    /\ Cardinality(Handed) <= MAX_POSTS_PER_CYCLE
    /\ idx <= MAX_POSTS_PER_CYCLE

\* a cycle with more classified jobs than the cap, finished, the cap used up
C6_Witness ==
    /\ pc = "waiting"
    /\ Len(classified_jobs) > MAX_POSTS_PER_CYCLE
    /\ Len(cycle_log) = MAX_POSTS_PER_CYCLE
    /\ Cardinality(Handed) = MAX_POSTS_PER_CYCLE

(***************************************************************************)
(* C31: the cap is applied before deduplication.  The jobs checked in a    *)
(* cycle are the first MAX_POSTS_PER_CYCLE classified jobs, in merge       *)
(* order; a duplicate among them uses up a place; a job behind that prefix *)
(* whose fingerprint is not in the prefix and had no row when the cycle    *)
(* began gets no row and is not handed to the publisher in that cycle.     *)
(***************************************************************************)
C31_CapBeforeDedup ==
    /\ \A n \in 1..Len(cycle_log) :
          n <= MAX_POSTS_PER_CYCLE /\ cycle_log[n].job = classified_jobs[n]
    /\ pc = "waiting" =>
          Len(cycle_log) = Min(Len(classified_jobs), MAX_POSTS_PER_CYCLE)
    /\ \A n \in (MAX_POSTS_PER_CYCLE + 1)..Len(classified_jobs) :
          LET h == generate_job_hash(classified_jobs[n]) IN
          ( /\ \A m \in 1..MAX_POSTS_PER_CYCLE : generate_job_hash(classified_jobs[m]) # h
            /\ ~Exists(store_at_top, h) )
          => ~Exists(posted_jobs, h)

\* a finished cycle whose last place went to a duplicate, the new job
\* behind it left unregistered
C31_Witness ==
    /\ pc = "waiting"
    /\ Len(classified_jobs) > MAX_POSTS_PER_CYCLE
    /\ Len(cycle_log) = MAX_POSTS_PER_CYCLE
    /\ cycle_log[MAX_POSTS_PER_CYCLE].dup
    /\ ~Exists(posted_jobs, generate_job_hash(classified_jobs[MAX_POSTS_PER_CYCLE + 1]))

(***************************************************************************)
(* C7: when a cycle has finished publishing without the pause flag being   *)
(* met, and its k classified jobs (k within the cap) have pairwise         *)
(* distinct fingerprints of which d had a row within the retention window, *)
(* exactly k - d jobs were handed to the publisher.                        *)
(***************************************************************************)
DistinctFingerprints(jobs) ==
    \A m, n \in 1..Len(jobs) :
        m # n => generate_job_hash(jobs[m]) # generate_job_hash(jobs[n])

C7_ExactCount ==
    ( /\ pc = "waiting"
      /\ Len(classified_jobs) <= MAX_POSTS_PER_CYCLE
      /\ DistinctFingerprints(classified_jobs)
      /\ \A n \in 1..Len(cycle_log) : cycle_log[n].outcome # "paused" )
    => Cardinality(Handed)
         = Len(classified_jobs)
             - Cardinality({ n \in 1..Len(cycle_log) : cycle_log[n].known })

(***************************************************************************)
(* C8: an iteration that finds the pause flag set invokes no source,       *)
(* classifies nothing, makes no deduplication check (the store is as it    *)
(* was), publishes nothing, and sleeps 60 seconds before the flag is read  *)
(* again.                                                                  *)
(***************************************************************************)
C8_PausedIterationIdle ==
    top_paused =>
        /\ pc = "pause_sleep"
        /\ timer = 60
        /\ invoked = <<>>
        /\ fetched = <<>>
        /\ classified_jobs = <<>>
        /\ cycle_log = <<>>
        /\ posted_jobs = store_at_top

\* a paused iteration that follows a cycle which registered a job
C8_Witness ==
    /\ top_paused
    /\ pc = "pause_sleep"
    /\ \E r \in posted_jobs : r.posted_at >= 0

(***************************************************************************)
(* C9: in a cycle that was not paused at its top the sources are invoked   *)
(* one at a time in the order of fetch_functions; whatever a fetch         *)
(* returned, failed or not, the next source is invoked and the jobs merged *)
(* so far are kept; publishing starts only after every source was invoked. *)
(***************************************************************************)
C9_AllSourcesInOrder ==
    (InCycle /\ ~top_paused) =>
        /\ invoked = SubSeq(Sources, 1, Len(invoked))
        /\ \A n \in 1..Len(fetched) : fetched[n].source = Sources[n]
        /\ all_jobs = Merge(fetched, Len(fetched))
        /\ pc = "fetching" => Len(invoked) = Len(fetched) + 1
        /\ PastFetching => (invoked = Sources /\ Len(fetched) = NumSources)

\* the first source failed, a later one delivered, and its jobs are merged
C9_Witness ==
    /\ PastFetching
    /\ fetched[1].failed
    /\ ~fetched[NumSources].failed
    /\ all_jobs = fetched[NumSources].jobs
    /\ all_jobs # <<>>

(***************************************************************************)
(* C26: every job that is duplicate-checked, stored or handed to the       *)
(* publisher has a remote-work keyword and an IT-role keyword in its       *)
(* title+description, is not classified Excluded, and carries the level    *)
(* Junior or Middle.                                                       *)
(***************************************************************************)
Passed ==
    { WithLevel(j, level) :
        j \in { f \in FeedJobs : /\ AnyIn(REMOTE_KEYWORDS, FullText(f))
                                 /\ AnyIn(IT_ROLES, FullText(f))
                                 /\ classify_job_level(f) # None },
        level \in {"Junior", "Middle"} }

C26_OnlyGatedJobs ==
    /\ \A n \in 1..Len(classified_jobs) : classified_jobs[n] \in Passed
    /\ \A n \in 1..Len(cycle_log) : cycle_log[n].job \in Passed
    /\ \A r \in posted_jobs : \E j \in Passed : r = NewRow(j, r.posted_at)

\* a listing with an excluded and an unsuitable job was fetched, and the
\* one job that passed the gate was sent
C26_Witness ==
    /\ \E n \in 1..Len(all_jobs) : all_jobs[n] = JobX(Sources[1])
    /\ \E n \in 1..Len(all_jobs) : all_jobs[n] = JobU(Sources[1])
    /\ Len(cycle_log) >= 1
    /\ cycle_log[1].outcome = "ok"

(***************************************************************************)
(* C29: the paused sleep lasts 60 seconds and, once the pause flag is      *)
(* cleared, is left for a Fetching phase; a cycle that completes waits     *)
(* CHECK_INTERVAL and is followed by the next pause check and, the flag    *)
(* being clear, by Fetching; the loop passes from one phase to another     *)
(* only along Fetching, (Classifying,) Publishing, Waiting and from        *)
(* Waiting back to Fetching, the only other ways being the paused sleep    *)
(* between cycles and the cool-down that follows an exception.             *)
(***************************************************************************)
PublishingPositions == {"sending", "flood_sleep", "pacing"}

PhaseEdges ==
    ({"startup", "pause_sleep", "waiting", "cooldown"} \X {"fetching", "pause_sleep"})
    \cup ({"fetching"} \X (PublishingPositions \cup {"waiting", "cooldown"}))
    \cup (PublishingPositions \X (PublishingPositions \cup {"waiting", "cooldown"}))

C29_PhaseOrder ==
    /\ []<>(pc # "pause_sleep" \/ is_paused)
    /\ []<>(pc # "waiting")
    /\ [](pc = "pause_sleep" => timer = PAUSE_RECHECK)
    /\ [](pc = "waiting" => timer = CHECK_INTERVAL /\ idx = 0)
    /\ [][(pc \in {"pause_sleep", "waiting"} /\ pc' # pc)
             => pc' = IF is_paused THEN "pause_sleep" ELSE "fetching"]_vars
    /\ [][pc' # pc => <<pc, pc'>> \in PhaseEdges]_vars

\* the flag was cleared during the sleep of a paused iteration that
\* followed a cycle with a sent job
C29_Witness ==
    /\ pc = "pause_sleep"
    /\ top_paused
    /\ ~is_paused
    /\ timer = PAUSE_RECHECK
    /\ posted_jobs # {}

(***************************************************************************)
(* C30: no send_message call begins while the pause flag is set, the call  *)
(* after a flood-control sleep included.                                   *)
(***************************************************************************)
C30_NoSendWhilePaused ==
    [][(pc' = "sending" /\ cycle_log' # cycle_log) => ~is_paused]_vars

\* /pause arrived during the flood-control sleep: the second send was not made
C30_Witness ==
    /\ is_paused
    /\ \E n \in 1..Len(cycle_log) :
          cycle_log[n].outcome = "paused" /\ cycle_log[n].sends = 1

(***************************************************************************)
(* C12: no exception raised inside a cycle ends the collection loop: main  *)
(* is always at one of the awaits of its loop; an exception puts it into   *)
(* the 300-second sleep of the except clause, and the only way out of that *)
(* sleep is the top of the loop.                                           *)
(***************************************************************************)
LoopPositions ==
    {"startup", "pause_sleep", "fetching", "sending", "flood_sleep", "pacing",
     "waiting", "cooldown"}

C12_LoopSurvives ==
    /\ [](pc \in LoopPositions /\ (pc = "cooldown" => timer = 300))
    /\ [][pc = "cooldown" =>
            \/ pc' = "cooldown"
            \/ pc' = "pause_sleep" /\ is_paused /\ cycle_log' = <<>>
            \/ pc' = "fetching" /\ ~is_paused /\ invoked' = <<Sources[1]>>]_vars

\* an exception was caught after the cycle had already published a job
C12_Witness ==
    /\ pc = "cooldown"
    /\ timer = 300
    /\ posted_count >= 1

(***************************************************************************)
(* C13 as claimed: a storage error during is_duplicate_job ends the        *)
(* publishing phase (the job being checked is not handed to the publisher, *)
(* no later job is checked), and the cycle goes on to its wait phase, the  *)
(* CHECK_INTERVAL sleep.                                                   *)
(***************************************************************************)
StorageErrors == { n \in 1..Len(cycle_log) : cycle_log[n].outcome = "storage_error" }

PhaseAborted(n) ==
    /\ n = Len(cycle_log)
    /\ cycle_log[n].sends = 0
    /\ \A r \in posted_jobs \ store_at_top :
          \E m \in Handed : generate_job_hash(cycle_log[m].job) = r.hash

C13_AbortThenWaitPhase ==
    \A n \in StorageErrors :
        PhaseAborted(n) /\ pc = "waiting" /\ timer = CHECK_INTERVAL

(***************************************************************************)
(* C13 as amended: a storage error during is_duplicate_job ends the        *)
(* publishing phase (the job being checked is not handed to the publisher  *)
(* and gets no row, no later job is checked), and main sleeps the          *)
(* 300-second cool-down of its except clause, not the CHECK_INTERVAL wait. *)
(***************************************************************************)
C13_AbortThenCooldown ==
    \A n \in StorageErrors :
        PhaseAborted(n) /\ pc = "cooldown" /\ timer = COOLDOWN

\* the error hit the second check of a cycle whose first job was sent
C13_Witness ==
    /\ pc = "cooldown"
    /\ Len(cycle_log) = 2
    /\ cycle_log[1].sends >= 1
    /\ cycle_log[2].outcome = "storage_error"
    /\ Len(PublishBatch(classified_jobs)) >= 2

(***************************************************************************)
(* C15: a send_message failure (timeout or other error) for one job leaves *)
(* posted_count unchanged and does not end the publishing phase:           *)
(* posted_count counts exactly the jobs whose send succeeded, and a cycle  *)
(* that reaches its wait has checked every job within the cap.             *)
(***************************************************************************)
C15_FailureDoesNotAbort ==
    /\ InCycle =>
          posted_count
            = Cardinality({ n \in 1..Len(cycle_log) : cycle_log[n].outcome = "ok" })
    /\ pc = "waiting" => Len(cycle_log) = Len(PublishBatch(classified_jobs))

\* the first job's send failed, the second job was still handed over and sent
C15_Witness ==
    /\ pc = "waiting"
    /\ Len(cycle_log) = 2
    /\ cycle_log[1].outcome \in {"timeout", "error"}
    /\ cycle_log[2].outcome = "ok"
    /\ posted_count = 1

(***************************************************************************)
(* The publisher flooded: the run of the bot from an empty table on a host *)
(* at UTC, where send_message may answer one job with RetryAfter up to     *)
(* FloodDepth times.                                                       *)
(***************************************************************************)
FloodDepth == 2

InitQuiet == Init /\ tz = 0 /\ posted_jobs = {}

\* lines 921-924, once more for the same job
SendRetryAfterAgain(retry_after) ==
    /\ mode = "main"
    /\ pc = "sending"
    /\ floods >= MaxFloods
    /\ floods < FloodDepth
    /\ Publishing([Cur(NoFault) EXCEPT !.pc = "flood_sleep", !.timer = retry_after,
                                       !.floods = @ + 1])

NextFlood ==
    \/ Next
    \/ \E retry_after \in RetryAfterSeconds : SendRetryAfterAgain(retry_after)

SpecFlood == InitQuiet /\ [][NextFlood]_vars

(***************************************************************************)
(* C14: for one job send_message is invoked at most twice, however often   *)
(* it answers RetryAfter.                                                  *)
(***************************************************************************)
C14_AtMostOneRetry ==
    \A n \in 1..Len(cycle_log) : cycle_log[n].sends <= 2

(***************************************************************************)
(* Shutdown (lines 967-970, 1033-1044): the signal handler creates the     *)
(* task shutdown(), which runs beside main from one await to the next.     *)
(***************************************************************************)
\* SIGINT/SIGTERM: the task starts and awaits application.stop()
Signal ==
    /\ mode = "main"
    /\ pc # "startup"
    /\ sd = "none"
    /\ sd' = "stop"
    /\ UNCHANGED <<mode, clf_vars, store_vars, dedup_vars, retry_vars, main_vars, fn_vars>>

\* application.stop() returned: the task awaits application.shutdown()
StopDone ==
    /\ mode = "main"
    /\ sd = "stop"
    /\ sd' = "shutdown"
    /\ UNCHANGED <<mode, clf_vars, store_vars, dedup_vars, retry_vars, main_vars, fn_vars>>

\* application.shutdown() returned: db.close(), then sys.exit(0) ends the
\* event loop and main with it
ShutdownDone ==
    /\ mode = "main"
    /\ sd = "shutdown"
    /\ sd' = "closed"
    /\ mode' = "exited"
    /\ UNCHANGED <<clf_vars, store_vars, dedup_vars, retry_vars, main_vars, fn_vars>>

NextShutdown == Next \/ Signal \/ StopDone \/ ShutdownDone

SpecShutdown == InitQuiet /\ [][NextShutdown]_vars

(***************************************************************************)
(* C19: once the shutdown signal has been received, the collection cycle   *)
(* starts no new adapter invocation, no new deduplication check and no new *)
(* send.                                                                   *)
(***************************************************************************)
NoNewWork ==
    /\ invoked' = invoked \/ invoked' = <<>>
    /\ Len(cycle_log') <= Len(cycle_log)
    /\ \A n \in 1..Len(cycle_log') : cycle_log'[n].sends <= cycle_log[n].sends

C19_NoWorkAfterSignal == [][sd # "none" => NoNewWork]_vars

(***************************************************************************)
(* C18: a step of an admin command (start, status, last, pause, resume)    *)
(* leaves the rows of posted_jobs and every variable of the collection     *)
(* loop as they are, except the pause flag.                                *)
(***************************************************************************)
AdminCommand ==
    \E user \in Users :
        \/ cmd_start(user)
        \/ cmd_status(user)
        \/ cmd_last(user, 1)
        \/ cmd_pause(user)
        \/ cmd_resume(user)

C18_AdminFrame ==
    [][AdminCommand =>
          /\ posted_jobs' = posted_jobs
          /\ UNCHANGED loop_vars_but_paused
          /\ is_paused' \in BOOLEAN]_vars

\* the admin paused the bot while a send was in flight and rows were stored
C18_Witness ==
    /\ is_paused
    /\ pc = "sending"
    /\ posted_jobs # {}

(***************************************************************************)
(* Single functions run on an argument: arg names the function and holds   *)
(* its input, res is what it returned.                                     *)
(*  - a source fetched as line 997 does it: safe_fetch_with_retry run on   *)
(*    an adapter; answers[n] is what the provider answers to the adapter's *)
(*    n-th request.                                                        *)
(***************************************************************************)
RateLimited(headers) == [kind |-> "HTTPError429", headers |-> headers]

ProviderAnswers ==
    { NetOk(<<>>), NetOk(<<SampleJob>>),
      RateLimited(NoHeaders),
      RateLimited([h \in {"Retry-After"} |-> "7"]),
      [kind |-> "HTTPError503"],
      [kind |-> "Timeout"] }

FetchInputs ==
    { [fn |-> "fetch", answers |-> a, jitter |-> j] :
        a \in [1..max_retries -> ProviderAnswers], j \in 0..random_jitter }

\*  - format_job_message from the joined message on (lines 437-443).  A text
\*    is held as the number of characters kept of the joined message and the
\*    text appended to them.
MESSAGE_LIMIT == 4096
KEPT_CHARS == 4090
TRUNCATION_MARKER == "...\n<i>(soobsenie sokraseno)</i>"

\* how far around the limit the lengths of the joined message range
FormatSpan == 40

TruncateMessage(message_len) ==
    IF message_len > MESSAGE_LIMIT
    THEN [kept |-> Min(KEPT_CHARS, message_len), tail |-> TRUNCATION_MARKER]
    ELSE [kept |-> message_len, tail |-> ""]

TextLen(text) == text.kept + Len(text.tail)

FormatInputs ==
    { [fn |-> "format", message_len |-> n] :
        n \in (MESSAGE_LIMIT - FormatSpan)..(MESSAGE_LIMIT + FormatSpan) }

\*  - generate_job_hash run on two jobs
HashJobs ==
    LET bare == { [title |-> t, company |-> "Acme", description |-> d, source |-> "Remotive"] :
                    t \in {"Junior Dev", "QA Engineer"}, d \in {"remote", "on site"} }
    IN  bare \cup
        { [f \in DOMAIN j \cup {"url"} |-> IF f = "url" THEN u ELSE j[f]] :
            j \in bare,
            u \in {"", " ", "https://jobs.example/1", " https://jobs.example/1 ",
                   "https://jobs.example/2"} }

HashInputs == { [fn |-> "hash", a |-> a, b |-> b] : a \in HashJobs, b \in HashJobs }

\*  - extract_salary (lines 308-322)
RECURSIVE Decimal(_)
Decimal(n) ==
    IF n < 10 THEN SubSeq("0123456789", n + 1, n + 1)
    ELSE Decimal(n \div 10) \o SubSeq("0123456789", (n % 10) + 1, (n % 10) + 1)

\* f"{n:,}"
RECURSIVE Grouped(_)
Grouped(n) ==
    IF n < 0 THEN "-" \o Grouped(0 - n)
    ELSE IF n < 1000 THEN Decimal(n)
    ELSE Grouped(n \div 1000) \o "," \o SubSeq(Decimal(1000 + (n % 1000)), 2, 4)

NOT_SPECIFIED == "Ne ukazana"

extract_salary(job) ==
    LET salary_raw == Get(job, "salary", "")
        a == Get(job, "minSalary", 0)
        b == Get(job, "maxSalary", 0)
        min_sal == IF a # 0 THEN a ELSE Get(job, "salary_min", 0)
        max_sal == IF b # 0 THEN b ELSE Get(job, "salary_max", 0)
        currency == Get(job, "currency", "USD")
    IN  IF salary_raw # "" /\ salary_raw \notin {"", "Not specified", NOT_SPECIFIED}
        THEN salary_raw
        ELSE IF min_sal # 0 /\ max_sal # 0 /\ (min_sal > 0 \/ max_sal > 0)
        THEN IF min_sal > 0 /\ max_sal > 0
             THEN "$" \o Grouped(min_sal) \o "-$" \o Grouped(max_sal) \o " " \o currency
             ELSE IF max_sal > 0
             THEN "do $" \o Grouped(max_sal) \o " " \o currency
             ELSE NOT_SPECIFIED
        ELSE NOT_SPECIFIED

\* jobs with each salary field absent ({}) or holding one value
SalaryInputs ==
    LET fields == [salary : {{}, {""}, {"Not specified"}, {"$100k"}},
                   minSalary : {{}, {0}, {3000}, {0 - 1}},
                   maxSalary : {{}, {0}, {5000}, {1234567}},
                   salary_min : {{}, {2000}},
                   currency : {{}, {"EUR"}}]
    IN  { [fn |-> "salary",
           job |-> [k \in { k \in DOMAIN o : o[k] # {} } |-> CHOOSE v \in o[k] : TRUE]] :
            o \in fields }

FnInputs == FetchInputs \cup FormatInputs \cup HashInputs \cup SalaryInputs

Call(a) ==
    CASE a.fn = "fetch" ->
           safe_fetch_with_retry([n \in 1..max_retries |-> AdapterCall(a.answers[n])],
                                 a.jitter)
      [] a.fn = "format" -> TruncateMessage(a.message_len)
      [] a.fn = "hash" -> <<generate_job_hash(a.a), generate_job_hash(a.b)>>
      [] a.fn = "salary" -> extract_salary(a.job)

InitFn ==
    /\ mode = "fn"
    /\ arg \in FnInputs
    /\ res = None
    /\ done = FALSE
    /\ sd = "none"
    /\ ClassifierIdle
    /\ StoreIdle
    /\ DedupIdle
    /\ RetryIdle
    /\ MainIdle

NextFn ==
    /\ mode = "fn"
    /\ ~done
    /\ done' = TRUE
    /\ res' = Call(arg)
    /\ UNCHANGED <<mode, arg, clf_vars, store_vars, dedup_vars, retry_vars, main_vars, sd>>

SpecFn == InitFn /\ [][NextFn]_vars

\* the wait a rate-limit answer asks for: its Retry-After, else the default
AskedWait(answer) ==
    IF "Retry-After" \in DOMAIN answer.headers
    THEN PyInt(answer.headers["Retry-After"]).value
    ELSE DEFAULT_RETRY_AFTER

(***************************************************************************)
(* C11: when the provider answers the first request of a fetch with HTTP   *)
(* 429, the fetch sleeps the Retry-After duration (the default when the    *)
(* header is absent) and calls the adapter again.                          *)
(***************************************************************************)
C11_RateLimitRetried ==
    (done /\ arg.fn = "fetch" /\ arg.answers[1].kind = "HTTPError429") =>
        /\ res.calls >= 2
        /\ Len(res.sleeps) >= 1
        /\ res.sleeps[1] = AskedWait(arg.answers[1])

(***************************************************************************)
(* C16: the text format_job_message returns is at most 4096 characters     *)
(* long; when the joined message is longer than that, the text ends with   *)
(* the truncation marker and is still at most 4096 characters long.        *)
(***************************************************************************)
C16_WithinLimit ==
    (done /\ arg.fn = "format") =>
        /\ TextLen(res) <= 4096
        /\ arg.message_len > 4096 => res.tail = TRUNCATION_MARKER

(***************************************************************************)
(* C17 as claimed: two jobs with the same non-empty url get the same       *)
(* fingerprint whatever their other fields, and the title+company fallback *)
(* is used only for a job whose url is absent or empty.                    *)
(***************************************************************************)
HasUrl(job) == "url" \in DOMAIN job /\ job.url # ""

C17_UrlAloneDecides ==
    (done /\ arg.fn = "hash") =>
        /\ (HasUrl(arg.a) /\ HasUrl(arg.b) /\ arg.a.url = arg.b.url) => res[1] = res[2]
        /\ res[1][1] = "md5" => ~HasUrl(arg.a)

(***************************************************************************)
(* C17 as amended: the url counts with its surrounding whitespace          *)
(* stripped.  Two jobs whose stripped urls are equal and non-empty get the *)
(* same fingerprint whatever their other fields; the title+company         *)
(* fallback is used exactly when the url is absent, empty or blank; the    *)
(* same job gets the same fingerprint.                                     *)
(***************************************************************************)
StrippedUrl(job) == Strip(Get(job, "url", ""))

C17_StrippedUrlDecides ==
    (done /\ arg.fn = "hash") =>
        /\ (StrippedUrl(arg.a) # "" /\ StrippedUrl(arg.a) = StrippedUrl(arg.b))
              => res[1] = res[2]
        /\ res[1][1] = "md5" <=> StrippedUrl(arg.a) = ""
        /\ arg.a = arg.b => res[1] = res[2]

\* same url up to surrounding blanks, other fields different, one fingerprint
C17_Witness ==
    /\ done
    /\ arg.fn = "hash"
    /\ StrippedUrl(arg.a) # ""
    /\ "url" \in DOMAIN arg.b
    /\ arg.a.url # arg.b.url
    /\ arg.a.title # arg.b.title
    /\ arg.a.description # arg.b.description
    /\ res[1] = res[2]

(***************************************************************************)
(* C20: extract_salary returns a pre-formatted salary text as it is; else, *)
(* with a positive minimum and maximum, the range form; else, with only a  *)
(* maximum (the minimum absent or zero), the form "do $MAX CUR"; else the  *)
(* "not specified" text.                                                   *)
(***************************************************************************)
C20_SalaryPrecedence ==
    (done /\ arg.fn = "salary") =>
        LET job == arg.job
            text == Get(job, "salary", "")
            no_text == text \in {"", "Not specified", NOT_SPECIFIED}
            lo == IF Get(job, "minSalary", 0) # 0 THEN Get(job, "minSalary", 0)
                  ELSE Get(job, "salary_min", 0)
            hi == Get(job, "maxSalary", 0)
            cur == Get(job, "currency", "USD")
        IN  /\ ~no_text => res = text
            /\ (no_text /\ lo > 0 /\ hi > 0)
                  => res = "$" \o Grouped(lo) \o "-$" \o Grouped(hi) \o " " \o cur
            /\ (no_text /\ lo = 0 /\ hi > 0)
                  => res = "do $" \o Grouped(hi) \o " " \o cur
            /\ (no_text /\ hi = 0) => res = NOT_SPECIFIED

(***************************************************************************)
(* Classifier driver: the inputs are titles of two phrases and one         *)
(* description; the action applies both classifier functions.              *)
(***************************************************************************)
TitleWords ==
    {"Senior", "junior", "JUNIOR", "Middle", "Team Lead", "Python developer",
     "QA", "Sr", "sales"}

Descriptions ==
    {"", "Remote, 2+ years", "reports to the CTO, remote", "entry level, wfh",
     "fully REMOTE"}

ClassifierJobs ==
    { Job(w1 \o " " \o w2, d, "", "Acme", "Remotive") :
        w1 \in TitleWords, w2 \in TitleWords, d \in Descriptions }

InitClassify ==
    /\ mode = "classify"
    /\ c_job \in ClassifierJobs
    /\ c_level = "unset"
    /\ c_suitable = FALSE
    /\ StoreIdle
    /\ DedupIdle
    /\ RetryIdle
    /\ MainIdle
    /\ FnIdle

Classify ==
    /\ mode = "classify"
    /\ c_level = "unset"
    /\ c_level' = classify_job_level(c_job)
    /\ c_suitable' = is_suitable_job(c_job)
    /\ UNCHANGED <<mode, c_job, store_vars, dedup_vars, retry_vars, main_vars, sd, fn_vars>>

NextClassify == Classify

SpecClassify == InitClassify /\ [][NextClassify]_vars

(***************************************************************************)
(* C4: a text holding an exclusion keyword in its title or its             *)
(* description (in any letter case) is classified Excluded (None),         *)
(* whatever junior, middle or IT-role keywords it also holds and wherever  *)
(* they stand.                                                             *)
(***************************************************************************)
HasExclusion(job) ==
    \/ AnyIn(EXCLUDE_SIGNALS, Lower(job.title))
    \/ AnyIn(EXCLUDE_SIGNALS, Lower(job.description))

C4_ExclusionWins ==
    (c_level # "unset" /\ HasExclusion(c_job)) => c_level = None

\* an exclusion keyword after a junior keyword, with an IT role present
C4_Witness ==
    /\ c_level = None
    /\ c_job.title = "junior Senior"
    /\ c_job.description = "entry level, wfh"

(***************************************************************************)
(* C21: a text with a remote-work keyword and an IT-role keyword and no    *)
(* exclusion, junior or middle keyword is suitable and classified Junior;  *)
(* a text with no exclusion, junior, middle or IT-role keyword is          *)
(* classified Excluded (None).                                             *)
(***************************************************************************)
C21_UnlabelledRoleIsJunior ==
    c_level # "unset" =>
        LET text == FullText(c_job)
            unlabelled == /\ ~AnyIn(EXCLUDE_SIGNALS, text)
                          /\ ~AnyIn(JUNIOR_SIGNALS, text)
                          /\ ~AnyIn(MIDDLE_SIGNALS, text)
        IN  /\ (unlabelled /\ AnyIn(REMOTE_KEYWORDS, text) /\ AnyIn(IT_ROLES, text))
                  => (c_suitable /\ c_level = "Junior")
            /\ (unlabelled /\ ~AnyIn(IT_ROLES, text)) => c_level = None

\* a remote IT posting with no level word, classified by the fallback
C21_Witness ==
    /\ c_level = "Junior"
    /\ c_suitable
    /\ c_job.title = "Python developer QA"
    /\ c_job.description = "fully REMOTE"

(***************************************************************************)
(* C25: after the exclusion check the first matching rule decides: a text  *)
(* with no exclusion keyword and both a junior and a middle keyword is     *)
(* Junior; a text with a middle keyword and no junior or exclusion keyword *)
(* is Middle, also when it holds no IT-role keyword.                       *)
(***************************************************************************)
C25_FirstMatchOrder ==
    c_level # "unset" =>
        LET text == FullText(c_job)
            excluded == AnyIn(EXCLUDE_SIGNALS, text)
            junior == AnyIn(JUNIOR_SIGNALS, text)
            middle == AnyIn(MIDDLE_SIGNALS, text)
        IN  /\ (~excluded /\ junior /\ middle) => c_level = "Junior"
            /\ (~excluded /\ ~junior /\ middle) => c_level = "Middle"

\* a middle keyword and no IT-role keyword
C25_Witness ==
    /\ c_level = "Middle"
    /\ c_job.title = "Middle sales"
    /\ c_job.description = ""

=============================================================================
